---- MODULE Spec2Model ----
(***************************************************************************)
(* Template composition, template-store loading and the project tools of   *)
(* forgekit:                                                               *)
(*   src/registry/composer.ts  composeTemplates, normalizeTagOrder,        *)
(*                             isTierAllowed, isBlockAllowed               *)
(*   src/registry/loader.ts    loadAllTemplates, loadAllTemplatesWithExtras*)
(*                             and the merge*Templates helpers             *)
(*   refresh_project           refreshProjectHandler, analyzeDrift,        *)
(*                             computeUpdatedTags                          *)
(*   setup_project             setupProjectHandler, analyzeProjectState,   *)
(*                             determineTags, buildConfig                  *)
(* and two refresh_project calls that overlap at the handler's await.      *)
(***************************************************************************)
EXTENDS Integers, Sequences, FiniteSets, TLC

(***************************************************************************)
(* Bounds of the model                                                     *)
(***************************************************************************)
\* total number of fragments per kind in a template store
MaxFrags == 2
\* length of the requested tag list
MaxReq == 2
\* total number of fragments per kind in the directories of one load
MaxLoadFrags == 3
\* number of extension directories of one load
MaxExtraDirs == 2

(***************************************************************************)
(* Values                                                                  *)
(***************************************************************************)
\* an optional field (T | undefined) is a sequence of at most one element:
\* Undefined when the field is absent, Def(v) when it holds v
Undefined == <<>>

Def(v) == <<v>>

Val(o) == o[1]

\* the part of the closed tag enumeration the model uses
ALL_TAGS == {"UNIVERSAL", "API"}

ContentTier == {"core", "recommended", "optional"}

\* each tier admits only itself
TIER_HIERARCHY_OwnTierOnly ==
  [core        |-> <<"core">>,
   recommended |-> <<"recommended">>,
   optional    |-> <<"optional">>]

TIER_HIERARCHY ==
  [core        |-> <<"core">>,
   recommended |-> <<"core", "recommended">>,
   optional    |-> <<"core", "recommended", "optional">>]

DEFAULT_TIER == "recommended"

\* ids / names / paths of fragments
Ids == {"a", "b"}

(***************************************************************************)
(* Sequence helpers (Array.prototype.includes, new Set(array))             *)
(***************************************************************************)
Includes(arr, x) == \E i \in DOMAIN arr : arr[i] = x

SetOf(arr) == {arr[i] : i \in DOMAIN arr}

SeqsUpTo(S, n) == UNION {[1..k -> S] : k \in 0..n}

(***************************************************************************)
(* composer.ts                                                             *)
(***************************************************************************)
\* a ?? b
Coalesce(a, b) == IF a = Undefined THEN b ELSE Val(a)

\* a block without tier is taken for a recommended one
isTierAllowed_NoTierRecommended(blockTier, allowedTiers) ==
  LET effective == Coalesce(blockTier, "recommended")
  IN  effective \in allowedTiers

isTierAllowed(blockTier, allowedTiers) ==
  LET effective == Coalesce(blockTier, "core")
  IN  effective \in allowedTiers

\* the include list is consulted before the exclude list
isBlockAllowed_IncludeFirst(blockId, include, exclude) ==
  IF include # Undefined /\ Len(Val(include)) > 0
  THEN Includes(Val(include), blockId)
  ELSE ~(exclude # Undefined /\ Includes(Val(exclude), blockId))

isBlockAllowed(blockId, include, exclude) ==
  IF exclude # Undefined /\ Includes(Val(exclude), blockId)
  THEN FALSE
  ELSE IF include # Undefined /\ Len(Val(include)) > 0
       THEN Includes(Val(include), blockId)
       ELSE TRUE

RECURSIVE normalizeLoop(_, _, _, _)
normalizeLoop(tags, i, seen, result) ==
  IF i > Len(tags) THEN result
  ELSE IF tags[i] \notin seen
       THEN normalizeLoop(tags, i + 1, seen \cup {tags[i]}, Append(result, tags[i]))
       ELSE normalizeLoop(tags, i + 1, seen, result)

normalizeTagOrder(tags) ==
  IF ~Includes(tags, "UNIVERSAL")
  THEN normalizeLoop(tags, 1, {"UNIVERSAL"}, <<"UNIVERSAL">>)
  ELSE normalizeLoop(tags, 1, {}, <<>>)

\* the block loop without the seen-id test
RECURSIVE composeBlocks_NoDedup(_, _, _, _, _, _)
composeBlocks_NoDedup(blocks, i, acc, allowedTiers, includeList, excludeList) ==
  IF i > Len(blocks) THEN acc
  ELSE LET block == blocks[i]
       IN  IF /\ isTierAllowed(block.tier, allowedTiers)
              /\ isBlockAllowed(block.id, includeList, excludeList)
           THEN composeBlocks_NoDedup(blocks, i + 1,
                                      [out |-> Append(acc.out, block),
                                       seen |-> acc.seen \cup {block.id}],
                                      allowedTiers, includeList, excludeList)
           ELSE composeBlocks_NoDedup(blocks, i + 1, acc,
                                      allowedTiers, includeList, excludeList)

\* the block loop with unshift in place of push
RECURSIVE composeBlocks_Unshift(_, _, _, _, _, _)
composeBlocks_Unshift(blocks, i, acc, allowedTiers, includeList, excludeList) ==
  IF i > Len(blocks) THEN acc
  ELSE LET block == blocks[i]
       IN  IF /\ block.id \notin acc.seen
              /\ isTierAllowed(block.tier, allowedTiers)
              /\ isBlockAllowed(block.id, includeList, excludeList)
           THEN composeBlocks_Unshift(blocks, i + 1,
                                      [out |-> <<block>> \o acc.out,
                                       seen |-> acc.seen \cup {block.id}],
                                      allowedTiers, includeList, excludeList)
           ELSE composeBlocks_Unshift(blocks, i + 1, acc,
                                      allowedTiers, includeList, excludeList)

\* an id is marked as seen when it is met, admitted or not
RECURSIVE composeBlocks_FirstSeen(_, _, _, _, _, _)
composeBlocks_FirstSeen(blocks, i, acc, allowedTiers, includeList, excludeList) ==
  IF i > Len(blocks) THEN acc
  ELSE LET block == blocks[i]
       IN  IF /\ block.id \notin acc.seen
              /\ isTierAllowed(block.tier, allowedTiers)
              /\ isBlockAllowed(block.id, includeList, excludeList)
           THEN composeBlocks_FirstSeen(blocks, i + 1,
                                        [out |-> Append(acc.out, block),
                                         seen |-> acc.seen \cup {block.id}],
                                        allowedTiers, includeList, excludeList)
           ELSE composeBlocks_FirstSeen(blocks, i + 1,
                                        [acc EXCEPT !.seen = acc.seen \cup {block.id}],
                                        allowedTiers, includeList, excludeList)

\* one pass of a tier-filtered block loop: acc = [out, seen]
RECURSIVE composeBlocks(_, _, _, _, _, _)
composeBlocks(blocks, i, acc, allowedTiers, includeList, excludeList) ==
  IF i > Len(blocks) THEN acc
  ELSE LET block == blocks[i]
       IN  IF /\ block.id \notin acc.seen
              /\ isTierAllowed(block.tier, allowedTiers)
              /\ isBlockAllowed(block.id, includeList, excludeList)
           THEN composeBlocks(blocks, i + 1,
                              [out |-> Append(acc.out, block),
                               seen |-> acc.seen \cup {block.id}],
                              allowedTiers, includeList, excludeList)
           ELSE composeBlocks(blocks, i + 1, acc,
                              allowedTiers, includeList, excludeList)

\* the structure-entry loop: deduplicated by path only
RECURSIVE composeEntries(_, _, _)
composeEntries(entries, i, acc) ==
  IF i > Len(entries) THEN acc
  ELSE LET entry == entries[i]
       IN  IF entry.path \notin acc.seen
           THEN composeEntries(entries, i + 1,
                               [out |-> Append(acc.out, entry),
                                seen |-> acc.seen \cup {entry.path}])
           ELSE composeEntries(entries, i + 1, acc)

\* the hook loop: deduplicated by name only
RECURSIVE composeHooks(_, _, _)
composeHooks(hooks, i, acc) ==
  IF i > Len(hooks) THEN acc
  ELSE LET hook == hooks[i]
       IN  IF hook.name \notin acc.seen
           THEN composeHooks(hooks, i + 1,
                             [out |-> Append(acc.out, hook),
                              seen |-> acc.seen \cup {hook.name}])
           ELSE composeHooks(hooks, i + 1, acc)

EmptyAcc == [out |-> <<>>, seen |-> {}]

\* hooks.filter / entries.filter through isBlockAllowed
RECURSIVE FilterAllowedHooks(_, _, _)
FilterAllowedHooks(hooks, includeList, excludeList) ==
  IF hooks = <<>> THEN <<>>
  ELSE (IF isBlockAllowed(Head(hooks).name, includeList, excludeList)
        THEN <<Head(hooks)>> ELSE <<>>)
         \o FilterAllowedHooks(Tail(hooks), includeList, excludeList)

\* the loop body with the hooks put through the include/exclude gate
composeTag_GatedHooks(templateSet, st, allowedTiers, includeList, excludeList) ==
  [claudeMd  |-> IF templateSet.claudeMd # Undefined
                 THEN composeBlocks(Val(templateSet.claudeMd).blocks, 1, st.claudeMd,
                                    allowedTiers, includeList, excludeList)
                 ELSE st.claudeMd,
   structure |-> IF templateSet.structure # Undefined
                 THEN composeEntries(Val(templateSet.structure).entries, 1, st.structure)
                 ELSE st.structure,
   nfr       |-> IF templateSet.nfr # Undefined
                 THEN composeBlocks(Val(templateSet.nfr).blocks, 1, st.nfr,
                                    allowedTiers, includeList, excludeList)
                 ELSE st.nfr,
   hooks     |-> IF templateSet.hooks # Undefined
                 THEN composeHooks(FilterAllowedHooks(Val(templateSet.hooks),
                                                      includeList, excludeList),
                                   1, st.hooks)
                 ELSE st.hooks,
   review    |-> IF templateSet.review # Undefined
                 THEN composeBlocks(Val(templateSet.review).blocks, 1, st.review,
                                    allowedTiers, includeList, excludeList)
                 ELSE st.review]

\* the body of "for (const tag of orderedTags)"; st holds the five accumulators
composeTag(templateSet, st, allowedTiers, includeList, excludeList) ==
  [claudeMd  |-> IF templateSet.claudeMd # Undefined
                 THEN composeBlocks(Val(templateSet.claudeMd).blocks, 1, st.claudeMd,
                                    allowedTiers, includeList, excludeList)
                 ELSE st.claudeMd,
   structure |-> IF templateSet.structure # Undefined
                 THEN composeEntries(Val(templateSet.structure).entries, 1, st.structure)
                 ELSE st.structure,
   nfr       |-> IF templateSet.nfr # Undefined
                 THEN composeBlocks(Val(templateSet.nfr).blocks, 1, st.nfr,
                                    allowedTiers, includeList, excludeList)
                 ELSE st.nfr,
   hooks     |-> IF templateSet.hooks # Undefined
                 THEN composeHooks(Val(templateSet.hooks), 1, st.hooks)
                 ELSE st.hooks,
   review    |-> IF templateSet.review # Undefined
                 THEN composeBlocks(Val(templateSet.review).blocks, 1, st.review,
                                    allowedTiers, includeList, excludeList)
                 ELSE st.review]

RECURSIVE composeLoop(_, _, _, _, _, _, _)
composeLoop(orderedTags, t, templates, st, allowedTiers, includeList, excludeList) ==
  IF t > Len(orderedTags) THEN st
  ELSE IF orderedTags[t] \notin DOMAIN templates
       THEN composeLoop(orderedTags, t + 1, templates, st,
                        allowedTiers, includeList, excludeList)
       ELSE composeLoop(orderedTags, t + 1, templates,
                        composeTag(templates[orderedTags[t]], st,
                                   allowedTiers, includeList, excludeList),
                        allowedTiers, includeList, excludeList)

\* cfg = [tier, include, exclude], each possibly Undefined
composeTemplates(tags, templates, cfg) ==
  LET tierLevel    == Coalesce(cfg.tier, DEFAULT_TIER)
      \* new Set(TIER_HIERARCHY[tierLevel]): the empty set when tierLevel is
      \* not a key of TIER_HIERARCHY
      allowedTiers == IF tierLevel \in DOMAIN TIER_HIERARCHY
                      THEN SetOf(TIER_HIERARCHY[tierLevel])
                      ELSE {}
      orderedTags  == normalizeTagOrder(tags)
      st == composeLoop(orderedTags, 1, templates,
                        [claudeMd |-> EmptyAcc, structure |-> EmptyAcc,
                         nfr |-> EmptyAcc, hooks |-> EmptyAcc, review |-> EmptyAcc],
                        allowedTiers, cfg.include, cfg.exclude)
  IN  [claudeMdBlocks   |-> st.claudeMd.out,
       structureEntries |-> st.structure.out,
       nfrBlocks        |-> st.nfr.out,
       hooks            |-> st.hooks.out,
       reviewBlocks     |-> st.review.out]

(***************************************************************************)
(* loader.ts                                                               *)
(***************************************************************************)
\* names of the sub-directories a templates directory can have in the model;
\* "misc" is a directory name tagDirNameToTag does not know
DirNames == {"universal", "api", "misc"}

\* Tag | null
tagDirNameToTag(dirName) ==
  CASE dirName = "universal" -> Def("UNIVERSAL")
    [] dirName = "api"       -> Def("API")
    [] OTHER                 -> Undefined

\* the name of the directory of a tag the mapping knows
DirNameOf(tag) == CHOOSE n \in DirNames : tagDirNameToTag(n) = Def(tag)

\* a file is [parsed |-> Def(document)], or [parsed |-> Undefined] when
\* yaml.load fails on it or yields null (malformed or empty file)
\* loadYamlFile throws TemplateParseError
loadYamlFileThrows(file) == file.parsed = Undefined

\* the parsed document, when loadYamlFile returns
loadYamlFile(file) == Val(file.parsed)

\* loadTagTemplateSet has no try/catch: it throws when a file it reads throws
loadTagTemplateSetThrows(files) ==
  \/ files.instructionsYaml # Undefined /\ loadYamlFileThrows(Val(files.instructionsYaml))
  \/ /\ files.instructionsYaml = Undefined
     /\ files.claudeMdYaml # Undefined
     /\ loadYamlFileThrows(Val(files.claudeMdYaml))
  \/ files.nfrYaml # Undefined /\ loadYamlFileThrows(Val(files.nfrYaml))
  \/ files.structureYaml # Undefined /\ loadYamlFileThrows(Val(files.structureYaml))
  \/ files.hooksYaml # Undefined /\ loadYamlFileThrows(Val(files.hooksYaml))
  \/ files.reviewYaml # Undefined /\ loadYamlFileThrows(Val(files.reviewYaml))

\* files = the files of one tag directory, each Undefined when it does not exist
loadTagTemplateSet(tag, files) ==
  LET instructions ==
        IF files.instructionsYaml # Undefined
        THEN Def(loadYamlFile(Val(files.instructionsYaml)))
        ELSE IF files.claudeMdYaml # Undefined
             THEN Def(loadYamlFile(Val(files.claudeMdYaml)))
             ELSE Undefined
  IN  [tag          |-> tag,
       instructions |-> instructions,
       nfr          |-> IF files.nfrYaml # Undefined
                        THEN Def(loadYamlFile(Val(files.nfrYaml))) ELSE Undefined,
       structure    |-> IF files.structureYaml # Undefined
                        THEN Def(loadYamlFile(Val(files.structureYaml))) ELSE Undefined,
       hooks        |-> IF files.hooksYaml # Undefined
                        THEN Def(loadYamlFile(Val(files.hooksYaml)).hooks) ELSE Undefined,
       review       |-> IF files.reviewYaml # Undefined
                        THEN Def(loadYamlFile(Val(files.reviewYaml))) ELSE Undefined]

\* loadAllTemplates has no try/catch either: the error of one tag directory
\* leaves the loop and the function
loadAllTemplatesThrows(dir) ==
  \E n \in DOMAIN dir :
    tagDirNameToTag(n) # Undefined /\ loadTagTemplateSetThrows(dir[n])

\* dir = the sub-directories of a templates directory, by name; the returned
\* map when no tag directory throws
loadAllTemplates(dir) ==
  LET tags == {Val(tagDirNameToTag(n)) : n \in {m \in DOMAIN dir : tagDirNameToTag(m) # Undefined}}
  IN  [tag \in tags |-> loadTagTemplateSet(tag, dir[DirNameOf(tag)])]

\* extra.blocks.filter((b) => !seenIds.has(b.id))
RECURSIVE FilterNewIds(_, _)
FilterNewIds(blocks, seenIds) ==
  IF blocks = <<>> THEN <<>>
  ELSE IF Head(blocks).id \in seenIds
       THEN FilterNewIds(Tail(blocks), seenIds)
       ELSE <<Head(blocks)>> \o FilterNewIds(Tail(blocks), seenIds)

\* extra.filter((h) => !seenNames.has(h.name))
RECURSIVE FilterNewNames(_, _)
FilterNewNames(hooks, seenNames) ==
  IF hooks = <<>> THEN <<>>
  ELSE IF Head(hooks).name \in seenNames
       THEN FilterNewNames(Tail(hooks), seenNames)
       ELSE <<Head(hooks)>> \o FilterNewNames(Tail(hooks), seenNames)

\* the extension's blocks replace the base blocks of the same id
mergeInstructionTemplates_LastWins(baseT, extraT) ==
  IF extraT = Undefined THEN baseT
  ELSE IF baseT = Undefined THEN extraT
  ELSE LET extraIds == {Val(extraT).blocks[i].id : i \in DOMAIN Val(extraT).blocks}
       IN  Def([Val(baseT) EXCEPT
                  !.blocks = FilterNewIds(Val(baseT).blocks, extraIds) \o Val(extraT).blocks])

mergeInstructionTemplates(baseT, extraT) ==
  IF extraT = Undefined THEN baseT
  ELSE IF baseT = Undefined THEN extraT
  ELSE LET seenIds   == {Val(baseT).blocks[i].id : i \in DOMAIN Val(baseT).blocks}
           newBlocks == FilterNewIds(Val(extraT).blocks, seenIds)
       IN  Def([Val(baseT) EXCEPT !.blocks = Val(baseT).blocks \o newBlocks])

mergeNfrTemplates(baseT, extraT) ==
  IF extraT = Undefined THEN baseT
  ELSE IF baseT = Undefined THEN extraT
  ELSE LET seenIds   == {Val(baseT).blocks[i].id : i \in DOMAIN Val(baseT).blocks}
           newBlocks == FilterNewIds(Val(extraT).blocks, seenIds)
       IN  Def([Val(baseT) EXCEPT !.blocks = Val(baseT).blocks \o newBlocks])

\* the new hooks of the extension are put in front of the accumulated hooks
mergeHookTemplates_Prepend(baseH, extraH) ==
  IF extraH = Undefined THEN baseH
  ELSE IF baseH = Undefined THEN extraH
  ELSE LET seenNames == {Val(baseH)[i].name : i \in DOMAIN Val(baseH)}
           newHooks  == FilterNewNames(Val(extraH), seenNames)
       IN  Def(newHooks \o Val(baseH))

mergeHookTemplates(baseH, extraH) ==
  IF extraH = Undefined THEN baseH
  ELSE IF baseH = Undefined THEN extraH
  ELSE LET seenNames == {Val(baseH)[i].name : i \in DOMAIN Val(baseH)}
           newHooks  == FilterNewNames(Val(extraH), seenNames)
       IN  Def(Val(baseH) \o newHooks)

mergeReviewTemplates(baseT, extraT) ==
  IF extraT = Undefined THEN baseT
  ELSE IF baseT = Undefined THEN extraT
  ELSE LET seenIds   == {Val(baseT).blocks[i].id : i \in DOMAIN Val(baseT).blocks}
           newBlocks == FilterNewIds(Val(extraT).blocks, seenIds)
       IN  Def([Val(baseT) EXCEPT !.blocks = Val(baseT).blocks \o newBlocks])

\* the body of "for (const [tag, extraSet] of extra)" for all tags of extra
mergeExtra(baseMap, extraMap) ==
  [tag \in DOMAIN baseMap \cup DOMAIN extraMap |->
     IF tag \notin DOMAIN extraMap THEN baseMap[tag]
     ELSE IF tag \notin DOMAIN baseMap THEN extraMap[tag]
     ELSE LET baseSet  == baseMap[tag]
              extraSet == extraMap[tag]
          IN  [tag          |-> tag,
               instructions |-> mergeInstructionTemplates(baseSet.instructions,
                                                          extraSet.instructions),
               nfr          |-> mergeNfrTemplates(baseSet.nfr, extraSet.nfr),
               structure    |-> IF extraSet.structure # Undefined
                                THEN extraSet.structure ELSE baseSet.structure,
               hooks        |-> mergeHookTemplates(baseSet.hooks, extraSet.hooks),
               review       |-> mergeReviewTemplates(baseSet.review, extraSet.review)]]

(***************************************************************************)
(* Template directories read by the loader                                 *)
(***************************************************************************)
\* the files of a tag directory that lists the ids of shape in each of its
\* files; d is the position of the templates directory (1 = built-in).  The
\* built-in directory names its instruction file instructions.yaml, the
\* extension directories use the legacy name claude-md.yaml.  A tag directory
\* of shape Undefined has no file.  bad names the file of the directory that
\* is malformed or empty, Undefined when every file parses.
TagDirFiles(d, tag, shape, bad) ==
  LET file(name, doc) == Def([parsed |-> IF bad = Def(name) THEN Undefined ELSE Def(doc)])
      blocksOf(kind) ==
        [i \in 1..Len(Val(shape)) |->
           [id |-> Val(shape)[i], tier |-> Undefined, content |-> <<d, tag, kind, i>>]]
      instr(name) == file(name, [tag |-> tag, section |-> "instructions",
                                 blocks |-> blocksOf("instructions")])
  IN  IF shape = Undefined
      THEN [instructionsYaml |-> Undefined, claudeMdYaml |-> Undefined,
            nfrYaml |-> Undefined, structureYaml |-> Undefined,
            hooksYaml |-> Undefined, reviewYaml |-> Undefined]
      ELSE [instructionsYaml |-> IF d = 1 THEN instr("instructionsYaml") ELSE Undefined,
            claudeMdYaml     |-> IF d = 1 THEN Undefined ELSE instr("claudeMdYaml"),
            nfrYaml       |-> file("nfrYaml", [tag |-> tag, section |-> "nfr",
                                               blocks |-> blocksOf("nfr")]),
            structureYaml |-> file("structureYaml",
                                   [tag |-> tag, section |-> "structure",
                                    entries |-> [i \in 1..Len(Val(shape)) |->
                                       [path |-> Val(shape)[i], description |-> <<d, tag, i>>]]]),
            hooksYaml     |-> file("hooksYaml",
                                   [tag |-> tag, section |-> "hooks",
                                    hooks |-> [i \in 1..Len(Val(shape)) |->
                                       [name |-> Val(shape)[i], script |-> <<d, tag, i>>]]]),
            reviewYaml    |-> Def([parsed |-> Def([tag |-> tag, section |-> "review",
                                                   blocks |-> blocksOf("review")])])]

\* the files that can be malformed in the model: instructions.yaml, the
\* first file read, and hooks.yaml
BadFiles == {"instructionsYaml", "hooksYaml"}

\* number of fragments per kind in the tag directories described by f
RECURSIVE ShapeSize(_, _)
ShapeSize(f, D) ==
  IF D = {} THEN 0
  ELSE LET n == CHOOSE x \in D : TRUE
       IN  (IF f[n] = Undefined THEN 0 ELSE Len(Val(f[n]))) + ShapeSize(f, D \ {n})

\* the templates directories at position d with at most budget fragments per
\* kind: a known tag directory has no file or files listing at least one id;
\* only the built-in directory can have the unknown sub-directory "misc",
\* which has no file; at most one file of the directory is malformed
TemplateDirs(d, budget) ==
  LET shapes(n) == IF n = "misc" THEN {Undefined}
                   ELSE {Undefined} \cup {Def(ids) : ids \in SeqsUpTo(Ids, budget) \ {<<>>}}
      names  == IF d = 1 THEN DirNames ELSE DirNames \ {"misc"}
      descr  == UNION {{f \in [D -> UNION {shapes(n) : n \in D}] :
                           /\ \A n \in D : f[n] \in shapes(n)
                           /\ ShapeSize(f, D) <= budget}
                         : D \in SUBSET names}
      bads(f) == {Undefined} \cup
                 {Def(<<n, b>>) : n \in {m \in DOMAIN f : f[m] # Undefined}, b \in BadFiles}
      choices == UNION {{<<f, bad>> : bad \in bads(f)} : f \in descr}
  IN  {[n \in DOMAIN c[1] |->
          TagDirFiles(d, IF n = "misc" THEN "MISC" ELSE Val(tagDirNameToTag(n)), c[1][n],
                      IF c[2] # Undefined /\ Val(c[2])[1] = n
                      THEN Def(Val(c[2])[2]) ELSE Undefined)]
         : c \in choices}

\* number of fragments per kind in the files of a templates directory
RECURSIVE DirSize(_, _)
DirSize(dir, D) ==
  IF D = {} THEN 0
  ELSE LET n == CHOOSE x \in D : TRUE
           f == dir[n].reviewYaml
       IN  (IF f = Undefined THEN 0 ELSE Len(Val(Val(f).parsed).blocks))
             + DirSize(dir, D \ {n})

(***************************************************************************)
(* Template stores handed to the composer                                  *)
(***************************************************************************)
\* what distinguishes the blocks of one tag's list: id and optional tier
BlockShape == [id : Ids, tier : {Def(t) : t \in ContentTier} \cup {Undefined}]

\* the template set of a tag whose five files list the same ids in the same
\* order; a tag directory without files has all five sections undefined
TagTemplateSet(tag, shape) ==
  LET blocksOf(kind) ==
        [i \in 1..Len(shape) |->
           [id |-> shape[i].id, tier |-> shape[i].tier, content |-> <<tag, kind, i>>]]
  IN  IF shape = <<>>
      THEN [tag |-> tag, claudeMd |-> Undefined, nfr |-> Undefined,
            structure |-> Undefined, hooks |-> Undefined, review |-> Undefined]
      ELSE [tag |-> tag,
            claudeMd  |-> Def([blocks |-> blocksOf("claudeMd")]),
            nfr       |-> Def([blocks |-> blocksOf("nfr")]),
            structure |-> Def([entries |-> [i \in 1..Len(shape) |->
                             [path |-> shape[i].id, description |-> <<tag, i>>]]]),
            hooks     |-> Def([i \in 1..Len(shape) |->
                             [name |-> shape[i].id, script |-> <<tag, i>>]]),
            review    |-> Def([blocks |-> blocksOf("review")])]

RECURSIVE SumLen(_, _)
SumLen(f, D) ==
  IF D = {} THEN 0
  ELSE LET d == CHOOSE x \in D : TRUE
       IN  Len(f[d]) + SumLen(f, D \ {d})

StoreShapes ==
  UNION {{f \in [D -> SeqsUpTo(BlockShape, MaxFrags)] : SumLen(f, D) <= MaxFrags}
           : D \in SUBSET ALL_TAGS}

StoreOf(f) == [t \in DOMAIN f |-> TagTemplateSet(t, f[t])]

Requests == SeqsUpTo(ALL_TAGS, MaxReq)

Configs ==
  [tier    : {Def(t) : t \in ContentTier} \cup {Undefined},
   include : {Undefined, Def(<<>>), Def(<<"a">>)},
   exclude : {Undefined, Def(<<"a">>)}]

(***************************************************************************)
(* refresh_project: refreshProjectHandler and its helpers                  *)
(***************************************************************************)
\* the tags of the tools in the model
ToolTags == {"UNIVERSAL", "API", "CLI"}

\* confidences are hundredths: 0.5 is 50, 0.6 is 60
SUGGEST_THRESHOLD == 50

\* add as a push onto an array
SetAdd_Push(tagSet, t) == Append(tagSet, t)

\* tagSet.add(t) on a Set kept in insertion order
SetAdd(tagSet, t) == IF Includes(tagSet, t) THEN tagSet ELSE Append(tagSet, t)

\* tagSet.delete(t)
SetDelete(tagSet, t) == SelectSeq(tagSet, LAMBDA x : x # t)

\* the tags not yet in the set are put in front of it
RECURSIVE AddAll_Unshift(_, _)
AddAll_Unshift(tagSet, tags) ==
  IF tags = <<>> THEN tagSet
  ELSE AddAll_Unshift(IF Includes(tagSet, Head(tags)) THEN tagSet
                      ELSE <<Head(tags)>> \o tagSet,
                      Tail(tags))

\* new Set(tags), and "for (const t of tags) tagSet.add(t)"
RECURSIVE AddAll(_, _)
AddAll(tagSet, tags) ==
  IF tags = <<>> THEN tagSet
  ELSE AddAll(SetAdd(tagSet, Head(tags)), Tail(tags))

\* every suggestion is added, whatever its confidence
RECURSIVE AddSuggestions_All(_, _)
AddSuggestions_All(tagSet, suggestions) ==
  IF suggestions = <<>> THEN tagSet
  ELSE AddSuggestions_All(SetAdd(tagSet, Head(suggestions).tag), Tail(suggestions))

\* for (const s of suggestions) if (s.confidence >= 0.6) tagSet.add(s.tag)
RECURSIVE AddSuggestions(_, _)
AddSuggestions(tagSet, suggestions) ==
  IF suggestions = <<>> THEN tagSet
  ELSE AddSuggestions(IF Head(suggestions).confidence >= 60
                      THEN SetAdd(tagSet, Head(suggestions).tag)
                      ELSE tagSet,
                      Tail(suggestions))

\* for (const t of removeTags) if (t !== "UNIVERSAL") tagSet.delete(t)
RECURSIVE RemoveAll(_, _)
RemoveAll(tagSet, removeTags) ==
  IF removeTags = <<>> THEN tagSet
  ELSE RemoveAll(IF Head(removeTags) # "UNIVERSAL"
                 THEN SetDelete(tagSet, Head(removeTags))
                 ELSE tagSet,
                 Tail(removeTags))

\* without the final tagSet.add("UNIVERSAL")
computeUpdatedTags_NoEnsure(currentTags, suggestions, addTags, removeTags) ==
  LET tagSet  == AddAll(<<>>, currentTags)
      added   == AddSuggestions(tagSet, suggestions)
      adds    == IF addTags # Undefined THEN AddAll(added, Val(addTags)) ELSE added
      removed == IF removeTags # Undefined THEN RemoveAll(adds, Val(removeTags)) ELSE adds
  IN  removed

\* the explicit removes run before the explicit adds
computeUpdatedTags_RemoveFirst(currentTags, suggestions, addTags, removeTags) ==
  LET tagSet  == AddAll(<<>>, currentTags)
      added   == AddSuggestions(tagSet, suggestions)
      removed == IF removeTags # Undefined THEN RemoveAll(added, Val(removeTags)) ELSE added
      adds    == IF addTags # Undefined THEN AddAll(removed, Val(addTags)) ELSE removed
  IN  SetAdd(adds, "UNIVERSAL")

computeUpdatedTags(currentTags, suggestions, addTags, removeTags) ==
  LET tagSet  == AddAll(<<>>, currentTags)
      added   == AddSuggestions(tagSet, suggestions)
      adds    == IF addTags # Undefined THEN AddAll(added, Val(addTags)) ELSE added
      removed == IF removeTags # Undefined THEN RemoveAll(adds, Val(removeTags)) ELSE adds
  IN  SetAdd(removed, "UNIVERSAL")

\* the loop over the detections of analyzeDrift: the suggestions pushed
RECURSIVE suggestLoop(_, _)
suggestLoop(detections, currentTags) ==
  IF detections = <<>> THEN <<>>
  ELSE (IF /\ Head(detections).confidence >= SUGGEST_THRESHOLD
           /\ ~Includes(currentTags, Head(detections).tag)
        THEN <<Head(detections)>> ELSE <<>>)
         \o suggestLoop(Tail(detections), currentTags)

\* the requested tier falls back to the default, not to the current tier
requestedTier_IgnoreCurrent(currentTier, args) == Coalesce(args.tier, "recommended")

\* const requestedTier = args.tier ?? currentTier
requestedTier(currentTier, args) == Coalesce(args.tier, currentTier)

\* a detection below the suggestion threshold does not count as a detection
droppedTagCandidates_IgnoreWeak(currentTags, detections) ==
  LET detectedTagSet == {detections[i].tag :
                           i \in {j \in DOMAIN detections :
                                    detections[j].confidence >= SUGGEST_THRESHOLD}}
  IN  SelectSeq(currentTags, LAMBDA t : t # "UNIVERSAL" /\ t \notin detectedTagSet)

\* currentTags.filter((t) => t !== "UNIVERSAL" && !detectedTagSet.has(t))
droppedTagCandidates(currentTags, detections) ==
  LET detectedTagSet == {detections[i].tag : i \in DOMAIN detections}
  IN  SelectSeq(currentTags, LAMBDA t : t # "UNIVERSAL" /\ t \notin detectedTagSet)

\* { config }: the options the tools give to composeTemplates; the
\* configuration files of the model have no include and no exclude key
composeOptions(cfg) ==
  [tier |-> cfg.tier, include |-> Undefined, exclude |-> Undefined]

\* the handler returns after "if (!args.apply)" without writing
writesFiles_Always(apply) == TRUE

\* whether refreshProjectHandler reaches its writeFileSync calls
writesFiles(apply) == apply

\* both counts are taken from the composition under the existing configuration
blockCountDelta_BeforeTwice(beforeComposed, afterComposed) ==
  [before |-> Len(beforeComposed.claudeMdBlocks),
   after  |-> Len(beforeComposed.claudeMdBlocks)]

\* blockCountDelta: { before: ..., after: ... } of the DriftReport
blockCountDelta(beforeComposed, afterComposed) ==
  [before |-> Len(beforeComposed.claudeMdBlocks),
   after  |-> Len(afterComposed.claudeMdBlocks)]

\* cfg = the existing configuration, detections = analyzeProject(projectDir),
\* templates = loadAllTemplatesWithExtras(undefined, config.templateDirs)
analyzeDrift(cfg, args, detections, templates) ==
  LET currentTags       == Coalesce(cfg.tags, <<"UNIVERSAL">>)
      currentTier       == Coalesce(cfg.tier, "recommended")
      requested         == requestedTier(currentTier, args)
      newTagSuggestions == suggestLoop(detections, currentTags)
      beforeComposed    == composeTemplates(currentTags, templates, composeOptions(cfg))
      proposedTags      == computeUpdatedTags(currentTags, newTagSuggestions,
                                              args.add_tags, args.remove_tags)
      afterConfig       == [cfg EXCEPT !.tags = Def(proposedTags),
                                       !.tier = Def(requested)]
      afterComposed     == composeTemplates(proposedTags, templates,
                                            composeOptions(afterConfig))
  IN  [currentTags          |-> currentTags,
       newTagSuggestions    |-> newTagSuggestions,
       droppedTagCandidates |-> droppedTagCandidates(currentTags, detections),
       tierChange           |-> IF requested # currentTier
                                THEN Def([from |-> currentTier, to |-> requested])
                                ELSE Undefined,
       blockCountDelta      |-> blockCountDelta(beforeComposed, afterComposed),
       afterConfig          |-> afterConfig]

\* the handler on a project that has a configuration: the report of the
\* call, with the configuration it composes with and writes when applied,
\* the result of its composition and the files it writes
refreshProjectHandler(existingConfig, args, detections, templates) ==
  LET drift         == analyzeDrift(existingConfig, args, detections, templates)
      updatedTags   == computeUpdatedTags(drift.currentTags, drift.newTagSuggestions,
                                          args.add_tags, args.remove_tags)
      updatedTier   == Coalesce(args.tier, Coalesce(existingConfig.tier, "recommended"))
      updatedConfig == [existingConfig EXCEPT !.tags = Def(updatedTags),
                                              !.tier = Def(updatedTier)]
      composedNow   == composeTemplates(updatedTags, templates,
                                        composeOptions(updatedConfig))
  IN  [tool           |-> "refresh_project",
       result         |-> IF args.apply THEN "applied" ELSE "preview",
       args           |-> args,
       existingConfig |-> existingConfig,
       detections     |-> detections,
       drift          |-> drift,
       updatedTags    |-> updatedTags,
       updatedTier    |-> updatedTier,
       composeTags    |-> updatedTags,
       composeConfig  |-> updatedConfig,
       composed       |-> Def(composedNow),
       updatedConfig  |-> updatedConfig,
       filesWritten   |-> IF writesFiles(args.apply)
                          THEN {"forgecraft.yaml", "CLAUDE.md"}
                          ELSE {}]

(***************************************************************************)
(* setup_project: setupProjectHandler and its helpers                      *)
(***************************************************************************)
AUTO_SUGGEST_THRESHOLD == 60

\* "for (const d of detections)" of analyzeProjectState
RECURSIVE detectLoop(_, _)
detectLoop(detectedTags, detections) ==
  IF detections = <<>> THEN detectedTags
  ELSE detectLoop(IF /\ Head(detections).confidence >= AUTO_SUGGEST_THRESHOLD
                     /\ ~Includes(detectedTags, Head(detections).tag)
                  THEN Append(detectedTags, Head(detections).tag)
                  ELSE detectedTags,
                  Tail(detections))

\* project = what the directory holds: isNewProject, the detections of the
\* code analysis, the configuration file; description = the detections of
\* analyzeDescription, Undefined when no description is given
analyzeProjectState(project, description) ==
  LET fromCode == IF ~project.isNewProject
                  THEN detectLoop(<<"UNIVERSAL">>, project.detections)
                  ELSE <<"UNIVERSAL">>
      fromDesc == IF description # Undefined
                  THEN detectLoop(fromCode, Val(description))
                  ELSE fromCode
  IN  [isNewProject   |-> project.isNewProject,
       detectedTags   |-> fromDesc,
       existingConfig |-> project.config]

determineTags(explicitTags, analysis) ==
  IF explicitTags # Undefined /\ Len(Val(explicitTags)) > 0
  THEN IF Includes(Val(explicitTags), "UNIVERSAL")
       THEN Val(explicitTags)
       ELSE <<"UNIVERSAL">> \o Val(explicitTags)
  ELSE LET merged == AddAll(<<>>, analysis.detectedTags)
       IN  IF /\ analysis.existingConfig # Undefined
              /\ Val(analysis.existingConfig).additionalTags # Undefined
           THEN AddAll(merged, Val(Val(analysis.existingConfig).additionalTags))
           ELSE merged

\* the fields of ForgeCraftConfig the model has: additionalTags is not among
\* the fields buildConfig copies
buildConfig(existing, tags, tier) ==
  [tags |-> Def(tags), tier |-> Def(tier), additionalTags |-> Undefined]

\* z.enum(CONTENT_TIERS).default("recommended")
setupProjectSchema(input) ==
  [input EXCEPT !.tier = Def(Coalesce(input.tier, "recommended"))]

\* templates = loadAllTemplatesWithExtras(undefined, config.templateDirs)
setupProjectHandler(project, input, description, templates) ==
  LET args      == setupProjectSchema(input)
      tier      == Coalesce(args.tier, "recommended")
      analysis  == analyzeProjectState(project, description)
      finalTags == determineTags(args.tags, analysis)
      cfg       == buildConfig(analysis.existingConfig, finalTags, tier)
      composedNow == composeTemplates(finalTags, templates, composeOptions(cfg))
  IN  [tool          |-> "setup_project",
       result        |-> IF args.dry_run THEN "dryRun" ELSE "written",
       input         |-> input,
       args          |-> args,
       description   |-> description,
       analysis      |-> analysis,
       finalTags     |-> finalTags,
       tier          |-> tier,
       composeTags   |-> finalTags,
       composeConfig |-> cfg,
       composed      |-> Def(composedNow),
       config        |-> cfg,
       \* step 7 writes the configuration; step 8 skips an instruction file
       \* that exists
       filesWritten  |-> IF args.dry_run THEN {}
                         ELSE {"forgecraft.yaml"} \cup
                              (IF project.instructionFile THEN {} ELSE {"CLAUDE.md"})]

(***************************************************************************)
(* Projects and arguments of the tools                                     *)
(***************************************************************************)
\* what analyzeProject and analyzeDescription return: at most n detections,
\* one per tag (deduplicateDetections), never of UNIVERSAL
\* around SUGGEST_THRESHOLD and around the 0.6 of computeUpdatedTags
Confidences == {49, 50, 59, 60}

\* around AUTO_SUGGEST_THRESHOLD
SetupConfidences == {59, 60}

DetectionListsOf(confidences, n) ==
  {d \in SeqsUpTo([tag : ToolTags \ {"UNIVERSAL"}, confidence : confidences], n) :
     \A i, j \in DOMAIN d : i # j => d[i].tag # d[j].tag}

DetectionLists(n) == DetectionListsOf(Confidences, n)

SetupDetectionLists(n) == DetectionListsOf(SetupConfidences, n)

\* an optional, non-empty list of at most n tags
OptTagLists(n) == {Undefined} \cup {Def(l) : l \in SeqsUpTo(ToolTags, n) \ {<<>>}}

OptLen(o) == IF o = Undefined THEN 0 ELSE Len(Val(o))

OptTiers == {Undefined} \cup {Def(t) : t \in ContentTier}

\* configuration files a user has written by hand, before the tools write
\* their own: tags absent, without UNIVERSAL or with it; one of them names a
\* tier that is not a ContentTier
HandWrittenConfigs ==
  [tags           : {Undefined, Def(<<"API">>), Def(<<"UNIVERSAL", "API">>)},
   tier           : {Undefined, Def("core")},
   additionalTags : {Undefined, Def(<<"CLI">>)}]
    \cup {[tags |-> Def(<<"UNIVERSAL", "API">>), tier |-> Def("premium"),
           additionalTags |-> Undefined]}

\* a forgecraft.yaml that yaml.load cannot parse
Unparsable == [malformed |-> TRUE]

\* a failure to parse falls through to the handler, which goes on with an
\* empty configuration
loadUserOverrides_EmptyOnFailure(file) ==
  IF file = Undefined THEN Undefined
  ELSE IF Val(file) = Unparsable
       THEN Def([tags |-> Undefined, tier |-> Undefined, additionalTags |-> Undefined])
       ELSE file

\* file = forgecraft.yaml of the project, Undefined when it does not exist
\* (the project has no .forgecraft.json); null is Undefined
loadUserOverrides(file) ==
  IF file = Undefined THEN Undefined
  ELSE IF Val(file) = Unparsable THEN Undefined
       ELSE file

\* the template store the tools load: the built-in directory has a core
\* and an optional instruction block and a hook under UNIVERSAL, and a
\* recommended instruction block under API; it has no directory for CLI
BuiltInStore ==
  [t \in {"UNIVERSAL", "API"} |->
     IF t = "UNIVERSAL"
     THEN [tag       |-> t,
           claudeMd  |-> Def([blocks |->
                           <<[id |-> "a", tier |-> Def("core"),
                              content |-> <<t, "claudeMd", 1>>],
                             [id |-> "b", tier |-> Def("optional"),
                              content |-> <<t, "claudeMd", 2>>]>>]),
           nfr       |-> Undefined,
           structure |-> Undefined,
           hooks     |-> Def(<<[name |-> "h", script |-> <<t, 1>>]>>),
           review    |-> Undefined]
     ELSE [tag       |-> t,
           claudeMd  |-> Def([blocks |->
                           <<[id |-> "c", tier |-> Def("recommended"),
                              content |-> <<t, "claudeMd", 1>>]>>]),
           nfr       |-> Undefined,
           structure |-> Undefined,
           hooks     |-> Undefined,
           review    |-> Undefined]]

(***************************************************************************)
(* State                                                                   *)
(***************************************************************************)
VARIABLES
  allTemplates,   \* Map<Tag, TagTemplateSet> given to composeTemplates
  activeTags,     \* the activeTags argument of the call
  config,         \* options.config of the call
  composed,       \* the ComposedTemplates returned
  pc,             \* "idle" before the call, "composed" after it
  builtInDir,     \* contents of the built-in templates directory
  nExtraDirs,     \* extraDirs.length
  extraDirs,      \* contents of the extension directories visited so far
                  \* (Undefined for a directory that does not exist)
  base,           \* the map loadAllTemplatesWithExtras accumulates
  lpc,            \* "start", "merging", "loaded", "threw"; "off" outside the loader
  forgecraftYaml, \* the configuration file of the project, Undefined when
                  \* the project has none
  instructionFile,\* whether the instruction file CLAUDE.md of the project exists
  call,           \* the tool call that has run and not yet returned
  inFlight        \* the overlapping refresh_project calls, one per caller:
                  \* where each is and what its frame holds

composerVars == <<allTemplates, activeTags, config, composed, pc>>

loaderVars == <<builtInDir, nExtraDirs, extraDirs, base, lpc>>

toolVars == <<forgecraftYaml, instructionFile, call, inFlight>>

vars == <<allTemplates, activeTags, config, composed, pc,
          builtInDir, nExtraDirs, extraDirs, base, lpc,
          forgecraftYaml, instructionFile, call, inFlight>>

NoConfig == [tier |-> Undefined, include |-> Undefined, exclude |-> Undefined]

NoResult ==
  [claudeMdBlocks |-> <<>>, structureEntries |-> <<>>, nfrBlocks |-> <<>>,
   hooks |-> <<>>, reviewBlocks |-> <<>>]

(***************************************************************************)
(* Spec: one call of composeTemplates on a template store                  *)
(***************************************************************************)
ComposerIdle ==
  /\ activeTags = <<>>
  /\ config = NoConfig
  /\ composed = NoResult
  /\ pc = "idle"

LoaderOff ==
  /\ builtInDir = <<>>
  /\ nExtraDirs = 0
  /\ extraDirs = <<>>
  /\ base = <<>>
  /\ lpc = "off"

NoCall == [tool |-> "none"]

ToolsOff ==
  /\ forgecraftYaml = Undefined
  /\ instructionFile = FALSE
  /\ inFlight = <<>>
  /\ call = NoCall

Init ==
  /\ allTemplates \in {StoreOf(f) : f \in StoreShapes}
  /\ ComposerIdle
  /\ LoaderOff
  /\ ToolsOff

ComposeTemplates ==
  /\ pc = "idle"
  /\ \E tags \in Requests, cfg \in Configs :
       /\ activeTags' = tags
       /\ config' = cfg
       /\ composed' = composeTemplates(tags, allTemplates, cfg)
  /\ pc' = "composed"
  /\ UNCHANGED allTemplates
  /\ UNCHANGED loaderVars
  /\ UNCHANGED toolVars

Next == ComposeTemplates

Spec == Init /\ [][Next]_vars

(***************************************************************************)
(* DedupSpec: one call of composeTemplates on a store that holds every tag *)
(* of the model, so that an id can be met under two tags                   *)
(***************************************************************************)
DedupInit ==
  /\ allTemplates \in {StoreOf(f) : f \in {g \in StoreShapes : DOMAIN g = ALL_TAGS}}
  /\ ComposerIdle
  /\ LoaderOff
  /\ ToolsOff

DedupSpec == DedupInit /\ [][Next]_vars

(***************************************************************************)
(* LoaderSpec: one call of loadAllTemplatesWithExtras                      *)
(***************************************************************************)
\* fragments per kind in the directories read so far
RECURSIVE ExtraDirsSize(_)
ExtraDirsSize(dirs) ==
  IF dirs = <<>> THEN 0
  ELSE (IF Head(dirs) = Undefined THEN 0
        ELSE DirSize(Val(Head(dirs)), DOMAIN Val(Head(dirs))))
         + ExtraDirsSize(Tail(dirs))

FragsRead == DirSize(builtInDir, DOMAIN builtInDir) + ExtraDirsSize(extraDirs)

LoaderInit ==
  /\ allTemplates = <<>>
  /\ ComposerIdle
  /\ builtInDir \in TemplateDirs(1, MaxLoadFrags)
  /\ nExtraDirs \in 0..MaxExtraDirs
  /\ extraDirs = <<>>
  /\ base = <<>>
  /\ lpc = "start"
  /\ ToolsOff

\* const base = loadAllTemplates(builtInDir); return it when there is no extra
LoadBuiltIn ==
  /\ lpc = "start"
  /\ ~loadAllTemplatesThrows(builtInDir)
  /\ base' = loadAllTemplates(builtInDir)
  /\ lpc' = IF nExtraDirs = 0 THEN "loaded" ELSE "merging"
  /\ UNCHANGED <<builtInDir, nExtraDirs, extraDirs>>
  /\ UNCHANGED composerVars
  /\ UNCHANGED toolVars

\* loadAllTemplates(builtInDir) throws TemplateParseError, which leaves
\* loadAllTemplatesWithExtras too
LoadBuiltInThrows ==
  /\ lpc = "start"
  /\ loadAllTemplatesThrows(builtInDir)
  /\ lpc' = "threw"
  /\ UNCHANGED <<builtInDir, nExtraDirs, extraDirs, base>>
  /\ UNCHANGED composerVars
  /\ UNCHANGED toolVars

\* an iteration of "for (const dir of extraDirs)" on a directory that is missing
SkipMissingDir ==
  /\ lpc = "merging"
  /\ Len(extraDirs) < nExtraDirs
  /\ extraDirs' = Append(extraDirs, Undefined)
  /\ UNCHANGED <<builtInDir, nExtraDirs, base, lpc>>
  /\ UNCHANGED composerVars
  /\ UNCHANGED toolVars

\* an iteration of "for (const dir of extraDirs)" on a directory that
\* exists: its template sets are merged into base, or, when one of its files
\* is malformed, loadAllTemplates(resolvedDir) throws and no store is returned
MergeExtraDir ==
  /\ lpc = "merging"
  /\ Len(extraDirs) < nExtraDirs
  /\ \E dir \in TemplateDirs(Len(extraDirs) + 2, MaxLoadFrags - FragsRead) :
       /\ extraDirs' = Append(extraDirs, Def(dir))
       /\ IF loadAllTemplatesThrows(dir)
          THEN lpc' = "threw" /\ base' = base
          ELSE lpc' = lpc /\ base' = mergeExtra(base, loadAllTemplates(dir))
  /\ UNCHANGED <<builtInDir, nExtraDirs>>
  /\ UNCHANGED composerVars
  /\ UNCHANGED toolVars

\* return base
ReturnMerged ==
  /\ lpc = "merging"
  /\ Len(extraDirs) = nExtraDirs
  /\ lpc' = "loaded"
  /\ UNCHANGED <<builtInDir, nExtraDirs, extraDirs, base>>
  /\ UNCHANGED composerVars
  /\ UNCHANGED toolVars

LoaderNext ==
  \/ LoadBuiltIn
  \/ LoadBuiltInThrows
  \/ SkipMissingDir
  \/ MergeExtraDir
  \/ ReturnMerged

LoaderSpec == LoaderInit /\ [][LoaderNext]_vars

(***************************************************************************)
(* ToolSpec: calls of refresh_project and setup_project on one project     *)
(***************************************************************************)
\* number of items among the inputs of one call: detections, add_tags,
\* remove_tags, tags, and a tier when one is given
MaxCallItems == 2

\* the items of one call left after the tier
ItemsBesides(tier) == MaxCallItems - (IF tier = Undefined THEN 0 ELSE 1)

ToolInit ==
  /\ allTemplates = BuiltInStore
  /\ ComposerIdle
  /\ LoaderOff
  /\ forgecraftYaml \in {Undefined, Def(Unparsable)} \cup {Def(c) : c \in HandWrittenConfigs}
  /\ instructionFile \in BOOLEAN
  /\ call = NoCall
  /\ inFlight = <<>>

\* loadUserOverrides returns null: the handler returns the no-config text
RefreshNoConfig ==
  /\ call.tool = "none"
  /\ loadUserOverrides(forgecraftYaml) = Undefined
  /\ call' = [tool |-> "refresh_project", result |-> "noConfig",
              composed |-> Undefined, filesWritten |-> {}]
  /\ UNCHANGED <<forgecraftYaml, instructionFile>>
  /\ UNCHANGED <<composerVars, loaderVars, inFlight>>

\* refreshProjectHandler on a project that has a configuration
RefreshProject ==
  /\ call.tool = "none"
  /\ loadUserOverrides(forgecraftYaml) # Undefined
  /\ \E tier \in OptTiers, apply \in BOOLEAN :
     \E detections \in DetectionLists(ItemsBesides(tier)) :
     \E add_tags \in OptTagLists(ItemsBesides(tier) - Len(detections)) :
     \E remove_tags \in OptTagLists(ItemsBesides(tier) - Len(detections) - OptLen(add_tags)) :
       LET args == [tier |-> tier, add_tags |-> add_tags,
                    remove_tags |-> remove_tags, apply |-> apply]
           done == refreshProjectHandler(Val(loadUserOverrides(forgecraftYaml)),
                                         args, detections, allTemplates)
       IN  /\ call' = done
           /\ forgecraftYaml' = IF "forgecraft.yaml" \in done.filesWritten
                                THEN Def(done.updatedConfig) ELSE forgecraftYaml
           /\ instructionFile' = IF "CLAUDE.md" \in done.filesWritten
                                 THEN TRUE ELSE instructionFile
  /\ UNCHANGED <<composerVars, loaderVars, inFlight>>

\* setupProjectHandler
SetupProject ==
  /\ call.tool = "none"
  /\ \E tier \in OptTiers, dry_run \in BOOLEAN, isNewProject \in BOOLEAN :
     \E detections \in SetupDetectionLists(IF isNewProject THEN 0 ELSE ItemsBesides(tier)) :
     \E description \in {Undefined} \cup
           {Def(d) : d \in SetupDetectionLists(ItemsBesides(tier) - Len(detections))} :
     \E tags \in OptTagLists(ItemsBesides(tier) - Len(detections) - OptLen(description)) :
       LET project == [isNewProject |-> isNewProject, detections |-> detections,
                       config |-> loadUserOverrides(forgecraftYaml),
                       instructionFile |-> instructionFile]
           input   == [tier |-> tier, tags |-> tags, dry_run |-> dry_run]
           done    == setupProjectHandler(project, input, description, allTemplates)
       IN  /\ call' = done
           /\ forgecraftYaml' = IF "forgecraft.yaml" \in done.filesWritten
                                THEN Def(done.config) ELSE forgecraftYaml
           /\ instructionFile' = IF "CLAUDE.md" \in done.filesWritten
                                 THEN TRUE ELSE instructionFile
  /\ UNCHANGED <<composerVars, loaderVars, inFlight>>

\* the handler returns its text to the caller
ReturnToCaller ==
  /\ call.tool # "none"
  /\ call' = NoCall
  /\ UNCHANGED <<forgecraftYaml, instructionFile>>
  /\ UNCHANGED <<composerVars, loaderVars, inFlight>>

ToolNext ==
  \/ RefreshNoConfig
  \/ RefreshProject
  \/ SetupProject
  \/ ReturnToCaller

ToolSpec == ToolInit /\ [][ToolNext]_vars

(***************************************************************************)
(* OverlapSpec: two refresh_project calls on one project that overlap at   *)
(* the await of the handler                                                *)
(***************************************************************************)
\* number of items among the arguments of one of the calls: add_tags,
\* remove_tags, a tier when one is given, and the detections of the project
MaxOverlapItems == 1

Callers == {1, 2}

NotStarted == [pc |-> "idle"]

\* the configurations the project starts with
OverlapConfigs ==
  {[tags |-> Undefined, tier |-> Undefined, additionalTags |-> Undefined],
   [tags |-> Def(<<"UNIVERSAL", "API">>), tier |-> Def("core"),
    additionalTags |-> Undefined]}

\* the handler stores the report of another call, the one started last
ownFrame_Shared(frames, caller) ==
  IF frames[2].pc # "idle" THEN frames[2].report ELSE frames[1].report

\* drift, updatedTags, updatedConfig: the constants of the handler's own frame
ownFrame(frames, caller) == frames[caller].report

OverlapInit ==
  /\ allTemplates = BuiltInStore
  /\ ComposerIdle
  /\ LoaderOff
  /\ forgecraftYaml \in {Def(c) : c \in OverlapConfigs}
  /\ instructionFile \in BOOLEAN
  /\ call = NoCall
  /\ inFlight = <<NotStarted, NotStarted>>

\* refreshProjectHandler up to "await loadAllTemplatesWithExtras(...)": the
\* configuration is read and the drift and the updated configuration are in
\* the frame; the composition after the await reads the frame only.  The
\* second call analyses the project the first analysed: same detections.
RefreshBeforeAwait(caller) ==
  /\ inFlight[caller].pc = "idle"
  /\ caller = 2 => inFlight[1].pc # "idle"
  /\ loadUserOverrides(forgecraftYaml) # Undefined
  /\ \E tier \in OptTiers, apply \in BOOLEAN :
     LET left == MaxOverlapItems - (IF tier = Undefined THEN 0 ELSE 1)
     IN
     \E detections \in (IF caller = 1 THEN DetectionLists(left)
                        ELSE {inFlight[1].report.detections}) :
     \E add_tags \in OptTagLists(left - (IF caller = 1 THEN Len(detections) ELSE 0)) :
     \E remove_tags \in OptTagLists(left - (IF caller = 1 THEN Len(detections) ELSE 0)
                                         - OptLen(add_tags)) :
       LET args == [tier |-> tier, add_tags |-> add_tags,
                    remove_tags |-> remove_tags, apply |-> apply]
           done == refreshProjectHandler(Val(loadUserOverrides(forgecraftYaml)),
                                         args, detections, allTemplates)
       IN  inFlight' = [inFlight EXCEPT ![caller] =
                          [pc       |-> "awaiting",
                           report   |-> done,
                           overlaps |-> \E other \in Callers :
                                          inFlight[other].pc = "awaiting"]]
  /\ UNCHANGED <<forgecraftYaml, instructionFile, call>>
  /\ UNCHANGED <<composerVars, loaderVars>>

\* refreshProjectHandler after the await: preview, or the writes and the
\* applied text
RefreshAfterAwait(caller) ==
  /\ inFlight[caller].pc = "awaiting"
  /\ LET done == ownFrame(inFlight, caller)
     IN  /\ inFlight' = [inFlight EXCEPT ![caller] =
                           [pc       |-> "done",
                            report   |-> inFlight[caller].report,
                            overlaps |-> inFlight[caller].overlaps,
                            returned |-> done]]
         /\ forgecraftYaml' = IF "forgecraft.yaml" \in done.filesWritten
                              THEN Def(done.updatedConfig) ELSE forgecraftYaml
         /\ instructionFile' = IF "CLAUDE.md" \in done.filesWritten
                               THEN TRUE ELSE instructionFile
  /\ UNCHANGED call
  /\ UNCHANGED <<composerVars, loaderVars>>

OverlapNext ==
  \E caller \in Callers :
    \/ RefreshBeforeAwait(caller)
    \/ RefreshAfterAwait(caller)

OverlapSpec == OverlapInit /\ [][OverlapNext]_vars

(***************************************************************************)
(* Helpers of the properties                                               *)
(***************************************************************************)
Composed == pc = "composed"

\* the three tier-filtered outputs of a result
TieredOutputs(r) == <<r.claudeMdBlocks, r.nfrBlocks, r.reviewBlocks>>

BlockIds(blocks) == {blocks[i].id : i \in DOMAIN blocks}

HookNames(hooks) == {hooks[i].name : i \in DOMAIN hooks}

EntryPaths(entries) == {entries[i].path : i \in DOMAIN entries}

\* the tags whose template sets the call visits
VisitedTags == SetOf(normalizeTagOrder(activeTags)) \cap DOMAIN allTemplates

\* the tier-filtered block lists of a tag in the store, by kind 1..3
StoreBlocks(tag, k) ==
  LET ts  == allTemplates[tag]
      sec == <<ts.claudeMd, ts.nfr, ts.review>>[k]
  IN  IF sec = Undefined THEN <<>> ELSE Val(sec).blocks

StoreHooks(tag) ==
  IF allTemplates[tag].hooks = Undefined THEN <<>> ELSE Val(allTemplates[tag].hooks)

StoreEntries(tag) ==
  IF allTemplates[tag].structure = Undefined THEN <<>>
  ELSE Val(allTemplates[tag].structure).entries

\* core < recommended < optional
TierRank(t) == CASE t = "core" -> 1 [] t = "recommended" -> 2 [] t = "optional" -> 3

(***************************************************************************)
(* C1: in every composed result no two instruction blocks share an id, no  *)
(* two NFR blocks share an id, no two review blocks share an id, no two    *)
(* hooks share a name and no two structure entries share a path.           *)
(***************************************************************************)
C1_NoDuplicates ==
  Composed =>
    /\ \A k \in 1..3 :
         LET out == TieredOutputs(composed)[k]
         IN  \A i, j \in DOMAIN out : i # j => out[i].id # out[j].id
    /\ \A i, j \in DOMAIN composed.hooks :
         i # j => composed.hooks[i].name # composed.hooks[j].name
    /\ \A i, j \in DOMAIN composed.structureEntries :
         i # j => composed.structureEntries[i].path # composed.structureEntries[j].path

\* a visited tag whose own list repeats an admitted id, emitted once
C1_Witness ==
  /\ Composed
  /\ \E t \in VisitedTags :
       /\ Len(StoreBlocks(t, 1)) = 2
       /\ StoreBlocks(t, 1)[1].id = StoreBlocks(t, 1)[2].id
       /\ StoreBlocks(t, 1)[1].id \in BlockIds(composed.claudeMdBlocks)
       /\ StoreHooks(t)[1].name \in HookNames(composed.hooks)

(***************************************************************************)
(* C2: for every non-empty requested tag list the normalized tag list has  *)
(* UNIVERSAL as its first element, so in every output kind the fragments   *)
(* of UNIVERSAL precede every fragment contributed by another tag.         *)
(***************************************************************************)
C2_UniversalFirst ==
  (Composed /\ Len(activeTags) > 0) =>
    /\ normalizeTagOrder(activeTags)[1] = "UNIVERSAL"
    /\ \A k \in 1..3 :
         LET out == TieredOutputs(composed)[k]
         IN  \A i, j \in DOMAIN out :
               (i < j /\ out[j].content[1] = "UNIVERSAL") => out[i].content[1] = "UNIVERSAL"
    /\ \A i, j \in DOMAIN composed.hooks :
         (i < j /\ composed.hooks[j].script[1] = "UNIVERSAL")
            => composed.hooks[i].script[1] = "UNIVERSAL"
    /\ \A i, j \in DOMAIN composed.structureEntries :
         (i < j /\ composed.structureEntries[j].description[1] = "UNIVERSAL")
            => composed.structureEntries[i].description[1] = "UNIVERSAL"

(***************************************************************************)
(* C3: per tier-filtered kind the ids composed at tier core are a subset   *)
(* of those composed at tier recommended, which are a subset of those      *)
(* composed at tier optional; hooks and structure entries are the same at  *)
(* all three tiers.                                                        *)
(***************************************************************************)
AtTier(t) == composeTemplates(activeTags, allTemplates, [config EXCEPT !.tier = Def(t)])

C3_TierMonotone ==
  Composed =>
    LET core        == AtTier("core")
        recommended == AtTier("recommended")
        optional    == AtTier("optional")
    IN  /\ \A k \in 1..3 :
             /\ BlockIds(TieredOutputs(core)[k])
                  \subseteq BlockIds(TieredOutputs(recommended)[k])
             /\ BlockIds(TieredOutputs(recommended)[k])
                  \subseteq BlockIds(TieredOutputs(optional)[k])
        /\ core.hooks = recommended.hooks
        /\ recommended.hooks = optional.hooks
        /\ core.structureEntries = recommended.structureEntries
        /\ recommended.structureEntries = optional.structureEntries

\* the three tiers give three different instruction outputs
C3_Witness ==
  /\ Composed
  /\ BlockIds(AtTier("core").claudeMdBlocks) # BlockIds(AtTier("recommended").claudeMdBlocks)
  /\ BlockIds(AtTier("recommended").claudeMdBlocks) # BlockIds(AtTier("optional").claudeMdBlocks)
  /\ Len(composed.hooks) > 0

(***************************************************************************)
(* C4: with no include/exclude lists, a tier-filtered block whose id       *)
(* occurs once among the lists of the composed tags is in the output iff   *)
(* its effective tier (core when the block has no tier) is at most the     *)
(* requested tier (recommended when the configuration has no tier).        *)
(***************************************************************************)
Occurrences(k, id) ==
  {<<t, i>> \in VisitedTags \X (1..MaxFrags + 1) :
      i \in DOMAIN StoreBlocks(t, k) /\ StoreBlocks(t, k)[i].id = id}

C5_ExcludeDominance ==
  (Composed /\ config.exclude # Undefined) =>
    \A k \in 1..3 :
      BlockIds(TieredOutputs(composed)[k]) \cap SetOf(Val(config.exclude)) = {}

\* an id in both lists, carried by a block the tier admits, is left out
C5_Witness ==
  /\ Composed
  /\ config.include = Def(<<"a">>)
  /\ config.exclude = Def(<<"a">>)
  /\ config.tier = Def("optional")
  /\ \E t \in VisitedTags : "a" \in BlockIds(StoreBlocks(t, 1))
  /\ "a" \notin BlockIds(composed.claudeMdBlocks)

(***************************************************************************)
(* C6 (as claimed): hooks and structure entries pass the include/exclude   *)
(* gate: none whose name/path is in the exclude list is in the output, and *)
(* with a non-empty include list only those named in it are.               *)
(***************************************************************************)
Gate(id) ==
  /\ config.exclude # Undefined => id \notin SetOf(Val(config.exclude))
  /\ (config.include # Undefined /\ Val(config.include) # <<>>)
        => id \in SetOf(Val(config.include))

C6_HooksGated ==
  Composed =>
    /\ \A n \in HookNames(composed.hooks) : Gate(n)
    /\ \A p \in EntryPaths(composed.structureEntries) : Gate(p)

(***************************************************************************)
(* C6 (amended): hooks and structure entries do not pass the               *)
(* include/exclude gate: every hook name and every structure path carried  *)
(* by a composed tag is in the output, whatever the include and exclude    *)
(* lists (and the tier) are.                                               *)
(***************************************************************************)
C6_HooksUngated ==
  Composed =>
    /\ HookNames(composed.hooks) = UNION {HookNames(StoreHooks(t)) : t \in VisitedTags}
    /\ EntryPaths(composed.structureEntries)
         = UNION {EntryPaths(StoreEntries(t)) : t \in VisitedTags}

\* an excluded name is composed as a hook and as a structure entry
C6_Witness ==
  /\ Composed
  /\ config.exclude = Def(<<"a">>)
  /\ config.include = Def(<<>>)
  /\ "a" \in HookNames(composed.hooks)
  /\ "a" \in EntryPaths(composed.structureEntries)
  /\ "a" \notin BlockIds(composed.claudeMdBlocks)

(***************************************************************************)
(* C7: a block of a composed tag whose id is in the include list (and not  *)
(* in the exclude list) is in the output for every requested tier, also    *)
(* when its own tier is above the requested tier.                          *)
(***************************************************************************)
C7_IncludeRegardlessOfTier ==
  (Composed /\ config.include # Undefined) =>
    \A k \in 1..3 : \A t \in VisitedTags :
      \A id \in BlockIds(StoreBlocks(t, k)) \cap SetOf(Val(config.include)) :
        (config.exclude = Undefined \/ id \notin SetOf(Val(config.exclude)))
           => id \in BlockIds(TieredOutputs(composed)[k])

(***************************************************************************)
(* C8: every composed sequence is ordered by tag (first occurrence in the  *)
(* request, UNIVERSAL put in front when the request omits it) and, within  *)
(* a tag, by the order of the store: it is a subsequence of the            *)
(* concatenation of the per-tag store lists.                               *)
(***************************************************************************)
\* position of the first occurrence of tag in the request; 0 for the
\* UNIVERSAL the composer adds itself
FirstIndex(tag) ==
  IF Includes(activeTags, tag)
  THEN CHOOSE i \in DOMAIN activeTags :
         activeTags[i] = tag /\ \A j \in 1..(i - 1) : activeTags[j] # tag
  ELSE 0

\* origin <<tag, index in the tag's list>> of out[i]; Before orders origins
Before(o1, o2) ==
  \/ FirstIndex(o1[1]) < FirstIndex(o2[1])
  \/ o1[1] = o2[1] /\ o1[2] < o2[2]

KeyOf(f) == IF "id" \in DOMAIN f THEN f.id ELSE f.name

\* the list of kind k (1 instructions, 2 NFR, 3 review, 4 hooks) of a loaded
\* template set
LoadedList(ts, k) ==
  LET sec == <<ts.instructions, ts.nfr, ts.review, ts.hooks>>[k]
  IN  IF sec = Undefined THEN <<>>
      ELSE IF k = 4 THEN Val(sec) ELSE Val(sec).blocks

\* the list of kind k in the files of the directory of tag in dir
FileList(dir, tag, k) ==
  LET files == dir[DirNameOf(tag)]
      instr == IF files.instructionsYaml # Undefined THEN files.instructionsYaml
               ELSE files.claudeMdYaml
      file  == <<instr, files.nfrYaml, files.reviewYaml, files.hooksYaml>>[k]
  IN  IF file = Undefined THEN <<>>
      ELSE IF k = 4 THEN loadYamlFile(Val(file)).hooks ELSE loadYamlFile(Val(file)).blocks

Keys(list) == {KeyOf(list[i]) : i \in DOMAIN list}

\* the step merges an extension directory that exists
MergesDir ==
  /\ lpc = "merging"
  /\ lpc' = "merging"
  /\ Len(extraDirs') = Len(extraDirs) + 1
  /\ extraDirs'[Len(extraDirs')] # Undefined

NewFragments(acc, ext) == SelectSeq(ext, LAMBDA f : KeyOf(f) \notin Keys(acc))

\* the list of kind k of tag in the files of a directory, empty when the
\* directory is missing or has no directory for the tag
DirList(optDir, tag, k) ==
  IF optDir = Undefined THEN <<>>
  ELSE IF DirNameOf(tag) \notin DOMAIN Val(optDir) THEN <<>>
  ELSE FileList(Val(optDir), tag, k)

\* base list, then the new fragments of dirs[1], then those of dirs[2], ...
RECURSIVE AppendInOrder(_, _, _, _)
AppendInOrder(acc, dirs, tag, k) ==
  IF dirs = <<>> THEN acc
  ELSE AppendInOrder(acc \o NewFragments(acc, DirList(Head(dirs), tag, k)),
                     Tail(dirs), tag, k)

LoadedEntries(ts) ==
  IF ts.structure = Undefined THEN <<>> ELSE Val(ts.structure).entries

\* the structure entries in the files of the directory of tag in dir
FileEntries(dir, tag) ==
  LET file == dir[DirNameOf(tag)].structureYaml
  IN  IF file = Undefined THEN <<>> ELSE loadYamlFile(Val(file)).entries

C12_StructureKept ==
  lpc \in {"merging", "loaded"} =>
    \A tag \in DOMAIN base :
      DirNameOf(tag) \in DOMAIN builtInDir =>
        \A i \in DOMAIN FileEntries(builtInDir, tag) :
          Includes(LoadedEntries(base[tag]), FileEntries(builtInDir, tag)[i])

(***************************************************************************)
(* C13: a malformed or empty YAML file in one tag directory fails only     *)
(* that tag: no exception leaves loadAllTemplates, and the returned store  *)
(* has the template set of every tag directory whose files all parse.      *)
(***************************************************************************)
C13_ParseFailureIsolated ==
  /\ lpc # "threw"
  /\ lpc \in {"merging", "loaded"} =>
       \A n \in DOMAIN builtInDir :
         (tagDirNameToTag(n) # Undefined /\ ~loadTagTemplateSetThrows(builtInDir[n]))
           => Val(tagDirNameToTag(n)) \in DOMAIN base

(***************************************************************************)
(* Helpers of the properties of the tools                                  *)
(***************************************************************************)
\* a refresh_project call on a project that has a configuration has run
Refreshed == call.tool = "refresh_project" /\ call.result # "noConfig"

\* a setup_project call has run
SetUp == call.tool = "setup_project"

\* the tags of the configuration file
PersistedTags == Val(Val(forgecraftYaml).tags)

\* the tags of an optional list, none when it is absent
OptTags(o) == IF o = Undefined THEN {} ELSE SetOf(Val(o))

(***************************************************************************)
(* C14: after every refresh_project call - whatever the detections, the    *)
(* add_tags, the remove_tags (UNIVERSAL among them or not) and the tags of *)
(* the existing configuration (UNIVERSAL among them or not) - the resolved *)
(* tag list contains UNIVERSAL, and so do the tags of the configuration    *)
(* file once the call has written it.                                      *)
(***************************************************************************)
C14_UniversalKept ==
  Refreshed =>
    /\ Includes(call.updatedTags, "UNIVERSAL")
    /\ Includes(Val(call.drift.afterConfig.tags), "UNIVERSAL")
    /\ call.result = "applied" => Includes(PersistedTags, "UNIVERSAL")

\* remove_tags UNIVERSAL, API on a configuration with the tags UNIVERSAL,
\* API: UNIVERSAL is left and written
C14_Witness ==
  /\ Refreshed
  /\ call.result = "applied"
  /\ call.existingConfig.tags = Def(<<"UNIVERSAL", "API">>)
  /\ call.args.remove_tags = Def(<<"UNIVERSAL", "API">>)
  /\ call.args.add_tags = Undefined
  /\ call.detections = <<>>
  /\ PersistedTags = <<"UNIVERSAL">>

(***************************************************************************)
(* C15: in a refresh_project call without add_tags and remove_tags, a      *)
(* detection of a tag that is not in the existing tags puts the tag in the *)
(* resolved tags exactly when its confidence is at least 0.6; with a       *)
(* confidence in [0.5, 0.6) it is in newTagSuggestions and the tag is not  *)
(* in the resolved tags; with a confidence below 0.5 it is in neither.     *)
(***************************************************************************)
C15_Thresholds ==
  (Refreshed /\ call.args.add_tags = Undefined /\ call.args.remove_tags = Undefined) =>
    \A i \in DOMAIN call.detections :
      LET d == call.detections[i]
      IN  ~Includes(call.drift.currentTags, d.tag) =>
            /\ Includes(call.updatedTags, d.tag) <=> d.confidence >= 60
            /\ (d.confidence >= 50 /\ d.confidence < 60) =>
                 Includes(call.drift.newTagSuggestions, d)
            /\ d.confidence < 50 =>
                 \A j \in DOMAIN call.drift.newTagSuggestions :
                   call.drift.newTagSuggestions[j].tag # d.tag

\* API detected at 0.59 is suggested and not added, CLI detected at 0.6 is
\* added
C15_Witness ==
  /\ Refreshed
  /\ call.args.add_tags = Undefined
  /\ call.args.remove_tags = Undefined
  /\ call.drift.currentTags = <<"UNIVERSAL">>
  /\ call.detections = <<[tag |-> "API", confidence |-> 59],
                         [tag |-> "CLI", confidence |-> 60]>>
  /\ Len(call.drift.newTagSuggestions) = 2
  /\ call.updatedTags = <<"UNIVERSAL", "CLI">>

(***************************************************************************)
(* C16: every tag listed in add_tags is in the resolved tag list, for      *)
(* every existing configuration, detections and remove_tags.               *)
(***************************************************************************)
C16_AddedAlways ==
  Refreshed => \A t \in OptTags(call.args.add_tags) : Includes(call.updatedTags, t)

(***************************************************************************)
(* C16, amended: the explicit removes run after the explicit adds.  A tag  *)
(* listed in add_tags is in the resolved tag list when it is UNIVERSAL or  *)
(* not listed in remove_tags; a tag other than UNIVERSAL listed in both is *)
(* not in the resolved tag list.                                           *)
(***************************************************************************)
C16_AddedUnlessRemoved ==
  Refreshed =>
    \A t \in OptTags(call.args.add_tags) :
      Includes(call.updatedTags, t)
        <=> (t = "UNIVERSAL" \/ t \notin OptTags(call.args.remove_tags))

\* API is added and removed in the same call: it is not in the resolved tags
C16_Witness ==
  /\ Refreshed
  /\ call.args.add_tags = Def(<<"API">>)
  /\ call.args.remove_tags = Def(<<"API">>)
  /\ call.drift.currentTags = <<"UNIVERSAL">>
  /\ call.updatedTags = <<"UNIVERSAL">>

(***************************************************************************)
(* C17: in refresh_project the resolved tier is the tier argument when     *)
(* given, otherwise the tier of the existing configuration when it has     *)
(* one, otherwise recommended; the tier of the configuration of the        *)
(* proposed composition (in analyzeDrift and in the handler), the tier     *)
(* written to the configuration file and the 'to' side of tierChange are   *)
(* this value.                                                             *)
(***************************************************************************)
C17_ResolvedTier ==
  Refreshed =>
    LET resolved == IF call.args.tier # Undefined THEN Val(call.args.tier)
                    ELSE IF call.existingConfig.tier # Undefined
                         THEN Val(call.existingConfig.tier)
                         ELSE "recommended"
    IN  /\ call.updatedTier = resolved
        /\ call.drift.afterConfig.tier = Def(resolved)
        /\ call.composeConfig.tier = Def(resolved)
        /\ call.result = "applied" => Val(forgecraftYaml).tier = Def(resolved)
        /\ call.drift.tierChange # Undefined => Val(call.drift.tierChange).to = resolved

\* no tier argument on a configuration of tier core: everything stays at
\* core and there is no tier change
C17_Witness ==
  /\ Refreshed
  /\ call.result = "applied"
  /\ call.args.tier = Undefined
  /\ call.existingConfig.tier = Def("core")
  /\ call.updatedTier = "core"
  /\ call.drift.tierChange = Undefined
  /\ Val(forgecraftYaml).tier = Def("core")

(***************************************************************************)
(* C18: setup_project without a tier argument on a project whose           *)
(* configuration file has a tier writes a configuration of that tier.      *)
(***************************************************************************)
C18_SetupKeepsTier ==
  (/\ SetUp
   /\ call.result = "written"
   /\ call.input.tier = Undefined
   /\ call.analysis.existingConfig # Undefined
   /\ Val(call.analysis.existingConfig).tier # Undefined)
    => Val(forgecraftYaml).tier = Val(call.analysis.existingConfig).tier

(***************************************************************************)
(* C19: setup_project without a tags argument on a project that has a      *)
(* configuration file writes a tag list that has every tag of that         *)
(* configuration's tags.                                                   *)
(***************************************************************************)
C19_SetupKeepsTags ==
  (/\ SetUp
   /\ call.result = "written"
   /\ call.input.tags = Undefined
   /\ call.analysis.existingConfig # Undefined)
    => \A t \in OptTags(Val(call.analysis.existingConfig).tags) :
         Includes(PersistedTags, t)

(***************************************************************************)
(* C20: droppedTagCandidates holds exactly the tags of the existing        *)
(* configuration, other than UNIVERSAL, that no detection of the fresh     *)
(* analysis names, whatever the confidence; each of them is in the         *)
(* resolved tags unless remove_tags lists it.                              *)
(***************************************************************************)
C20_DroppedCandidates ==
  Refreshed =>
    LET dropped == SetOf(call.drift.droppedTagCandidates)
    IN  /\ dropped = {t \in SetOf(call.drift.currentTags) :
                        /\ t # "UNIVERSAL"
                        /\ \A i \in DOMAIN call.detections : call.detections[i].tag # t}
        /\ \A t \in dropped :
             t \notin OptTags(call.args.remove_tags) => Includes(call.updatedTags, t)

\* API is in the configuration and not detected, CLI is detected below every
\* threshold: API is the one dropped candidate and stays in the resolved tags
C20_Witness ==
  /\ Refreshed
  /\ call.drift.currentTags = <<"UNIVERSAL", "API">>
  /\ call.detections = <<[tag |-> "CLI", confidence |-> 49]>>
  /\ call.args.remove_tags = Undefined
  /\ call.drift.droppedTagCandidates = <<"API">>
  /\ Includes(call.updatedTags, "API")

(***************************************************************************)
(* C30: deduplication across tags is by first admitted.  For every id and  *)
(* every tier-filtered kind, when some block of that id among the lists of *)
(* the composed tags passes the tier gate and the include/exclude gate,    *)
(* the output has exactly one block of that id, and it is the first such   *)
(* block in tag order and store order; a block of the same id that an      *)
(* earlier tag holds and a gate rejects does not suppress it.  When no     *)
(* block of that id passes the gates, the output has none.                 *)
(***************************************************************************)
\* the occurrences of id in kind k that pass both gates
Admissible(k, id) ==
  LET requested == IF config.tier = Undefined THEN "recommended" ELSE Val(config.tier)
      effective(block) == IF block.tier = Undefined THEN "core" ELSE Val(block.tier)
  IN  {o \in Occurrences(k, id) :
         /\ TierRank(effective(StoreBlocks(o[1], k)[o[2]])) <= TierRank(requested)
         /\ Gate(id)}

C30_FirstAdmitted ==
  Composed =>
    \A k \in 1..3 : \A id \in Ids :
      LET out     == TieredOutputs(composed)[k]
          adm     == Admissible(k, id)
          emitted == {i \in DOMAIN out : out[i].id = id}
      IN  IF adm = {} THEN emitted = {}
          ELSE \E first \in adm :
                 /\ \A o \in adm : o = first \/ Before(first, o)
                 /\ Cardinality(emitted) = 1
                 /\ \A i \in emitted : out[i] = StoreBlocks(first[1], k)[first[2]]

\* UNIVERSAL holds an optional block a, API a core block a; at tier core the
\* block of UNIVERSAL is rejected and the output has the block of API
C30_Witness ==
  /\ Composed
  /\ activeTags = <<"UNIVERSAL", "API">>
  /\ config.tier = Def("core")
  /\ config.include = Undefined
  /\ config.exclude = Undefined
  /\ DOMAIN allTemplates = {"UNIVERSAL", "API"}
  /\ Len(StoreBlocks("UNIVERSAL", 1)) = 1
  /\ StoreBlocks("UNIVERSAL", 1)[1].id = "a"
  /\ StoreBlocks("UNIVERSAL", 1)[1].tier = Def("optional")
  /\ Len(StoreBlocks("API", 1)) = 1
  /\ StoreBlocks("API", 1)[1].id = "a"
  /\ StoreBlocks("API", 1)[1].tier = Def("core")
  /\ composed.claudeMdBlocks = <<StoreBlocks("API", 1)[1]>>

(***************************************************************************)
(* C21: the block count delta of the drift report                          *)
(***************************************************************************)
\* the fields of ComposedTemplates, one per fragment kind
FragmentKinds ==
  {"claudeMdBlocks", "structureEntries", "nfrBlocks", "hooks", "reviewBlocks"}

\* the instruction blocks of the store that a composition for these tags at
\* this tier emits: those of UNIVERSAL and of the tags, at or below the tier
\* (the ids of the store the tools load are distinct)
InstructionBlocksFor(tags, tier) ==
  {o \in ((SetOf(tags) \cup {"UNIVERSAL"}) \cap DOMAIN allTemplates) \X (1..MaxFrags + 1) :
     /\ o[2] \in DOMAIN StoreBlocks(o[1], 1)
     /\ tier \in ContentTier
     /\ TierRank(Val(StoreBlocks(o[1], 1)[o[2]].tier)) <= TierRank(tier)}

\* C21 as stated: for each fragment kind, the block count delta of the drift
\* report gives the count composed under the existing configuration and the
\* count composed under the proposed configuration
C21_DeltaPerKind ==
  Refreshed =>
    \A kind \in FragmentKinds :
      /\ kind \in DOMAIN call.drift.blockCountDelta
      /\ call.drift.blockCountDelta[kind].after = Len(Val(call.composed)[kind])

\* C21 amended: the block count delta gives the number of instruction blocks
\* composed under the existing configuration and under the proposed one, and
\* no count of another kind
C21_InstructionBlocksOnly ==
  Refreshed =>
    LET delta    == call.drift.blockCountDelta
        existing == call.existingConfig
    IN  /\ DOMAIN delta = {"before", "after"}
        /\ delta.before =
             Cardinality(InstructionBlocksFor(Coalesce(existing.tags, <<"UNIVERSAL">>),
                                              Coalesce(existing.tier, "recommended")))
        /\ delta.after =
             Cardinality(InstructionBlocksFor(call.updatedTags, call.updatedTier))
        /\ delta.after = Len(Val(call.composed).claudeMdBlocks)

\* a refresh that raises the tier of a project tagged API from core to
\* optional: one instruction block before, three after, and one hook
C21_Witness ==
  /\ Refreshed
  /\ call.existingConfig.tags = Def(<<"UNIVERSAL", "API">>)
  /\ call.existingConfig.tier = Def("core")
  /\ call.args.tier = Def("optional")
  /\ call.drift.blockCountDelta = [before |-> 1, after |-> 3]
  /\ Len(Val(call.composed).hooks) = 1

(***************************************************************************)
(* C22: refresh_project on a project without a loadable configuration      *)
(***************************************************************************)
\* the project has no forgecraft.yaml, or one that does not parse
NoLoadableConfig == forgecraftYaml = Undefined \/ forgecraftYaml = Def(Unparsable)

\* a call of refresh_project starts and runs in this step
RefreshCalled == call.tool = "none" /\ call'.tool = "refresh_project"

\* C22: when no configuration can be loaded, refresh_project returns the
\* no-configuration result, without a composition and without writing a file
C22_NoConfigResult ==
  [][(RefreshCalled /\ NoLoadableConfig) =>
       /\ call'.result = "noConfig"
       /\ call'.composed = Undefined
       /\ call'.filesWritten = {}
       /\ forgecraftYaml' = forgecraftYaml
       /\ instructionFile' = instructionFile]_vars

\* refresh_project has returned the no-configuration result on a project
\* whose forgecraft.yaml does not parse
C22_Witness ==
  /\ call.tool = "refresh_project"
  /\ call.result = "noConfig"
  /\ forgecraftYaml = Def(Unparsable)

(***************************************************************************)
(* C23: preview and dry run write nothing                                  *)
(***************************************************************************)
\* a call of setup_project starts and runs in this step
SetupCalled == call.tool = "none" /\ call'.tool = "setup_project"

\* the call of this step is a refresh_project without apply, or a
\* setup_project with dry_run
ReadOnlyCall ==
  \/ RefreshCalled /\ call'.result # "noConfig" /\ ~call'.args.apply
  \/ SetupCalled /\ call'.args.dry_run

\* C23: refresh_project with apply=false and setup_project with dry_run=true
\* write no file: forgecraft.yaml and the instruction file are as before
C23_ReadOnly ==
  [][ReadOnlyCall =>
       /\ call'.filesWritten = {}
       /\ forgecraftYaml' = forgecraftYaml
       /\ instructionFile' = instructionFile]_vars

\* a preview that proposes another configuration than the file holds, on a
\* project without an instruction file: the file holds the old configuration
\* and there is still no instruction file
C23_Witness ==
  /\ call.tool = "refresh_project"
  /\ call.result = "preview"
  /\ call.updatedConfig # call.existingConfig
  /\ call.drift.blockCountDelta.before # call.drift.blockCountDelta.after
  /\ forgecraftYaml = Def(call.existingConfig)
  /\ ~instructionFile

(***************************************************************************)
(* C24: the keys a write of the configuration keeps                        *)
(***************************************************************************)
\* the keys of a configuration that neither tool sets itself
UnmanagedKeys == {"additionalTags"}

\* a refresh_project call has written the configuration
RefreshApplied == Refreshed /\ call.result = "applied"

\* a setup_project call has written the configuration of a project that had one
SetupRewritten ==
  SetUp /\ call.result = "written" /\ call.analysis.existingConfig # Undefined

\* C24: a write of the configuration re-emits the keys of the configuration
\* read that the tool does not manage, with their values
C24_KeysPreserved ==
  /\ RefreshApplied =>
       \A key \in UnmanagedKeys :
         Val(forgecraftYaml)[key] = call.existingConfig[key]
  /\ SetupRewritten =>
       \A key \in UnmanagedKeys :
         Val(forgecraftYaml)[key] = Val(call.analysis.existingConfig)[key]

(***************************************************************************)
(* C25: a tier that is not a ContentTier                                   *)
(***************************************************************************)
\* the call that has run has composed
CallComposed == call.tool # "none" /\ call.composed # Undefined

\* C25: composeTemplates is not run with a tier outside ContentTier, whether
\* the tier is an argument of the call or comes from the configuration read
C25_UnknownTierRejected ==
  CallComposed =>
    Coalesce(call.composeConfig.tier, DEFAULT_TIER) \in ContentTier

(***************************************************************************)
(* C29: duplicate tags in the persisted configuration                      *)
(***************************************************************************)
\* no element of the list occurs twice
NoDuplicates(list) == \A i, j \in DOMAIN list : list[i] = list[j] => i = j

\* the call that has run has written forgecraft.yaml
ConfigWritten == call.tool # "none" /\ "forgecraft.yaml" \in call.filesWritten

\* C29 as stated: the tags list a tool has persisted holds no tag twice
C29_NoDuplicateTags == ConfigWritten => NoDuplicates(PersistedTags)

\* C29 amended: the tags refresh_project persists hold no tag twice, and
\* those setup_project persists hold none twice unless its tags argument does
C29_NoDuplicatesUnlessExplicit ==
  ConfigWritten =>
    \/ NoDuplicates(PersistedTags)
    \/ /\ SetUp
       /\ call.args.tags # Undefined
       /\ ~NoDuplicates(Val(call.args.tags))

\* a refresh has rewritten a configuration whose tags held a tag twice, and
\* has added a tag that was already there
C29_Witness ==
  /\ RefreshApplied
  /\ call.existingConfig.tags # Undefined
  /\ ~NoDuplicates(Val(call.existingConfig.tags))
  /\ call.args.add_tags = Def(<<"API">>)
  /\ PersistedTags = <<"UNIVERSAL", "API">>

(***************************************************************************)
(* C28: refresh_project applied twice                                      *)
(***************************************************************************)
\* the report of the applied call run once more: same arguments, same
\* detections, on the configuration the call has persisted
RunAgain ==
  refreshProjectHandler(Val(loadUserOverrides(forgecraftYaml)),
                        call.args, call.detections, allTemplates)

\* the tags a report marks "auto-add": suggestions of confidence 0.6 or more
AutoAdds(report) ==
  {report.drift.newTagSuggestions[i].tag :
     i \in {j \in DOMAIN report.drift.newTagSuggestions :
              report.drift.newTagSuggestions[j].confidence >= 60}}

\* C28 as stated: the second of two identical applied refreshes persists the
\* configuration the first persisted and reports no auto-add suggestion and
\* no tierChange
C28_Idempotent ==
  RefreshApplied =>
    /\ RunAgain.updatedConfig = Val(forgecraftYaml)
    /\ RunAgain.drift.tierChange = Undefined
    /\ AutoAdds(RunAgain) = {}

\* C28 amended: the second run persists the same configuration and reports
\* no tierChange; the auto-add suggestions it reports are of tags that
\* remove_tags lists
C28_IdempotentUpToRemoved ==
  RefreshApplied =>
    /\ RunAgain.updatedConfig = Val(forgecraftYaml)
    /\ RunAgain.drift.tierChange = Undefined
    /\ AutoAdds(RunAgain) \subseteq OptTags(call.args.remove_tags)

\* a refresh has been applied and has changed the configuration; run again
\* it persists what is there, and API, detected and listed in remove_tags,
\* is suggested and removed again
C28_Witness ==
  /\ RefreshApplied
  /\ Val(forgecraftYaml) # call.existingConfig
  /\ call.args.remove_tags = Def(<<"API">>)
  /\ AutoAdds(RunAgain) = {"API"}
  /\ RunAgain.updatedConfig = Val(forgecraftYaml)

(***************************************************************************)
(* C27: two applied refreshes that overlap                                 *)
(***************************************************************************)
\* both calls have returned, the second began while the first was awaiting,
\* both were applied and neither removes a tag
BothAppliedOverlapped ==
  /\ \A c \in Callers : inFlight[c].pc = "done"
  /\ inFlight[2].overlaps
  /\ \A c \in Callers :
       /\ inFlight[c].report.args.apply
       /\ inFlight[c].report.args.remove_tags = Undefined

\* C27: after two overlapping applied refreshes the persisted tags hold the
\* add_tags of both calls
C27_NoLostUpdate ==
  BothAppliedOverlapped =>
    \A c \in Callers :
      OptTags(inFlight[c].report.args.add_tags) \subseteq SetOf(PersistedTags)

(***************************************************************************)
(* C26: overlapping preview calls                                          *)
(***************************************************************************)
\* the caller's call returns in this step
Returns(caller) == inFlight[caller].pc = "awaiting" /\ inFlight'[caller].pc = "done"

\* no call that has started is applied
OnlyPreviews ==
  \A c \in Callers : inFlight[c].pc # "idle" => ~inFlight[c].report.args.apply

\* what the call of the caller returns when it runs on the project alone
RunAlone(caller) ==
  refreshProjectHandler(Val(loadUserOverrides(forgecraftYaml)),
                        inFlight[caller].report.args,
                        inFlight[caller].report.detections, allTemplates)

====
